---- MODULE Spec2Model ----
(***************************************************************************)
(* Model of the AI query-safety pipeline of src/main.py:                   *)
(*   ai_sql_guard, is_sql_safe_for_role, post_filter_results_for_role and  *)
(*   the ai_query endpoint that chains them around the SQL executor.       *)
(*                                                                         *)
(* Text is a sequence of atoms.  An atom is an indivisible chunk of        *)
(* characters: a whole identifier or keyword in one letter case            *)
(* ("select", "SELECT", "drop"), one word character ("x"), or one          *)
(* non-word character (" ", ";", "*").  No atom contains the text of       *)
(* another atom, so Python's substring test `w in s` is "atom w occurs in  *)
(* s", and the regular expression \bw\b is "atom w occurs with no word     *)
(* atom directly before or after it".                                      *)
(***************************************************************************)
EXTENDS Integers, Sequences, FiniteSets, TLC

VARIABLES
    called,        \* pure-function harness: which function has been applied
    arg_sql,       \* pure-function harness: the sql argument
    arg_role,      \* pure-function harness: the role argument
    arg_username,  \* pure-function harness: the username argument
    arg_results,   \* pure-function harness: the results argument
    ret,           \* pure-function harness: the value returned
    pc,            \* ai_query: position of the request
    data,          \* ai_query: the AIQuerySchema payload
    client,        \* module global `client`: TRUE when the provider exists
    cand,          \* ai_query: the candidate the generator produced
    sql,           \* ai_query: local `sql` (text), NoSql while unbound
    raw_results,   \* ai_query: local `raw_results`
    results,       \* ai_query: local `results`
    result_str,    \* ai_query: local `result_str`
    response,      \* ai_query: the returned dict, NoResponse while running
    execCount,     \* number of conn.execute(sql) calls of this request
    guardVerdict,  \* blocked flag of ai_sql_guard of this request, or "none"
    policyVerdict, \* is_sql_safe_for_role result of this request, or NotRun
    catalog,       \* the store's sqlite_master: the (name, sql) of its tables
    schema_info,   \* ai_query: local `schema_info`, NoSchema while unbound
    genCalls,      \* number of SQL-generation completions of this request
    synthCalls,    \* number of answer-synthesis completions of this request
    arrived,       \* number of ai_query requests that have arrived so far
    login_credentials, \* store: rows of the table login_credentials
    users,         \* store: rows of the table users (registration profiles)
    student,       \* store: the ID of each row of the table student
    instructor,    \* store: the ID of each row of the table instructor
    section,       \* store: rows of the table section
    teaches,       \* store: rows of the table teaches
    takes,         \* store: rows of the table takes
    call,          \* write paths and login: the endpoint called, with its payload
    reply          \* write paths and login: what the endpoint answered

vars == <<called, arg_sql, arg_role, arg_username, arg_results, ret,
          pc, data, client, cand, sql, raw_results, results, result_str,
          response, execCount, guardVerdict, policyVerdict,
          catalog, schema_info, genCalls, synthCalls, arrived,
          login_credentials, users, student, instructor, section, teaches,
          takes, call, reply>>

harnessVars == <<called, arg_sql, arg_role, arg_username, arg_results, ret>>

queryVars == <<pc, data, client, cand, sql, raw_results, results, result_str,
               response, execCount, guardVerdict, policyVerdict,
               catalog, schema_info, genCalls, synthCalls, arrived>>

\* what a request reads or counts beside its locals
auditVars == <<catalog, schema_info, genCalls, synthCalls>>

\* the tables the write paths and login work on, and the call being served
storeVars == <<login_credentials, users, student, instructor, section, teaches,
               takes, call, reply>>

-----------------------------------------------------------------------------
(* Bounds *)

\* longest candidate text given to ai_sql_guard, in atoms
MaxGuardLen == 5
\* longest candidate text given to is_sql_safe_for_role, in atoms
MaxPolicyLen == 3
\* longest result list given to post_filter_results_for_role
MaxRows == 2

\* ai_query requests served one after the other
MaxRequests == 2

-----------------------------------------------------------------------------
(* Text primitives: str.lower, str.upper, str.strip, startswith, in, \b..\b *)

\* str.lower() on one atom
Lower(a) ==
    CASE a = "SELECT" -> "select"
      [] a = "Select" -> "select"
      [] a = "INSERT" -> "insert"
      [] a = "UPDATE" -> "update"
      [] a = "DELETE" -> "delete"
      [] a = "CREATE" -> "create"
      [] a = "DROP" -> "drop"
      [] a = "Drop" -> "drop"
      [] a = "ALTER" -> "alter"
      [] a = "TRUNCATE" -> "truncate"
      [] a = "LOGIN_CREDENTIALS" -> "login_credentials"
      [] a = "PASSWORD" -> "password"
      [] a = "Password" -> "password"
      [] a = "SALARY" -> "salary"
      [] a = "Student" -> "student"
      [] a = "STUDENT" -> "student"
      [] a = "Teacher" -> "teacher"
      [] a = "TEACHER" -> "teacher"
      [] a = "Admin" -> "admin"
      [] a = "ADMIN" -> "admin"
      [] a = "X" -> "x"
      [] a = "FROM" -> "from"
      [] a = "WHERE" -> "where"
      [] a = "TABLE" -> "table"
      [] a = "INSTRUCTOR" -> "instructor"
      [] a = "ADVISOR" -> "advisor"
      [] a = "NAME" -> "name"
      [] a = "S_ID" -> "s_id"
      [] a = "I_ID" -> "i_id"
      [] a = "ID" -> "id"
      [] a = "s_ID" -> "s_id"
      [] a = "i_ID" -> "i_id"
      [] a = "Delete" -> "delete"
      [] a = "S" -> "s"
      [] a = "T" -> "t"
      [] OTHER -> a

\* str.upper() on one atom
Upper(a) ==
    CASE Lower(a) = "select" -> "SELECT"
      [] Lower(a) = "insert" -> "INSERT"
      [] Lower(a) = "update" -> "UPDATE"
      [] Lower(a) = "delete" -> "DELETE"
      [] Lower(a) = "create" -> "CREATE"
      [] Lower(a) = "drop" -> "DROP"
      [] Lower(a) = "alter" -> "ALTER"
      [] Lower(a) = "truncate" -> "TRUNCATE"
      [] Lower(a) = "login_credentials" -> "LOGIN_CREDENTIALS"
      [] Lower(a) = "password" -> "PASSWORD"
      [] Lower(a) = "salary" -> "SALARY"
      [] Lower(a) = "x" -> "X"
      [] a = "from" -> "FROM"
      [] a = "where" -> "WHERE"
      [] a = "table" -> "TABLE"
      [] a = "student" -> "STUDENT"
      [] a = "instructor" -> "INSTRUCTOR"
      [] a = "advisor" -> "ADVISOR"
      [] a = "name" -> "NAME"
      [] a = "s_ID" -> "S_ID"
      [] a = "i_ID" -> "I_ID"
      [] OTHER -> a

\* str.isspace() on one atom
IsSpace(a) == a \in {" ", "\n"}

\* the atoms made of characters outside \w
NonWordAtoms == {" ", "\n", ";", "*", ",", "=", "'", "."}

\* the atom consists of \w characters (letters, digits, underscore)
IsWord(a) == a \notin NonWordAtoms

LowerStr(s) == [i \in 1..Len(s) |-> Lower(s[i])]

UpperStr(s) == [i \in 1..Len(s) |-> Upper(s[i])]

RECURSIVE LStripSet(_, _)
LStripSet(s, chars) ==
    IF s # <<>> /\ Head(s) \in chars THEN LStripSet(Tail(s), chars) ELSE s

RECURSIVE RStripSet(_, _)
RStripSet(s, chars) ==
    IF s # <<>> /\ s[Len(s)] \in chars
    THEN RStripSet(SubSeq(s, 1, Len(s) - 1), chars)
    ELSE s

\* str.strip(chars): drops every leading and trailing character in chars
StripSet(s, chars) == RStripSet(LStripSet(s, chars), chars)

\* str.strip(): drops leading and trailing whitespace
Strip(s) == StripSet(s, {" ", "\n"})

\* s.startswith(w) for a one-atom w
StartsWith(s, w) == Len(s) >= 1 /\ s[1] = w

\* `w in s` for a one-atom w
Contains(s, w) == \E i \in 1..Len(s) : s[i] = w

\* re.search(rf"\b{w}\b", s, flags=re.IGNORECASE) for a one-atom word w
SearchWord(s, w) ==
    \E i \in 1..Len(s) :
        /\ Lower(s[i]) = w
        /\ (i = 1 \/ ~IsWord(s[i - 1]))
        /\ (i = Len(s) \/ ~IsWord(s[i + 1]))

-----------------------------------------------------------------------------
(* ai_sql_guard *)

\* the list `forbidden`, in the order the loop visits it
forbidden == <<"insert", "update", "delete", "create", "drop", "alter", "truncate">>

\* the fixed read-only message; it spells INSERT / UPDATE / DELETE
MsgReadOnly == <<"read-only", "SELECT", "INSERT", "UPDATE", "DELETE">>

\* the message of the keyword branch: f"... cannot run `{word.upper()}` ..."
MsgCannotRun(word) == <<"cannot-run", Upper(word)>>

MsgMultiStatement == <<"multi-statement">>

\* FirstForbidden with the loop visiting `forbidden` from its end
FirstForbidden_reversed(sql_clean) ==
    IF \E k \in 1..Len(forbidden) : Contains(sql_clean, forbidden[k])
    THEN CHOOSE k \in 1..Len(forbidden) :
            /\ Contains(sql_clean, forbidden[k])
            /\ \A j \in (k + 1)..Len(forbidden) : ~Contains(sql_clean, forbidden[j])
    ELSE 0

\* index of the first word of `forbidden` that occurs in the text, 0 if none
FirstForbidden(sql_clean) ==
    IF \E k \in 1..Len(forbidden) : Contains(sql_clean, forbidden[k])
    THEN CHOOSE k \in 1..Len(forbidden) :
            /\ Contains(sql_clean, forbidden[k])
            /\ \A j \in 1..(k - 1) : ~Contains(sql_clean, forbidden[j])
    ELSE 0

\* ai_sql_guard without the "starts with select" branch
ai_sql_guard_noSelectCheck(s) ==
    LET sql_clean == Strip(LowerStr(s))
        k == FirstForbidden(sql_clean)
    IN  IF k # 0
        THEN [blocked |-> TRUE, message |-> MsgCannotRun(forbidden[k]), sql |-> s]
        ELSE IF Contains(StripSet(sql_clean, {";"}), ";")
        THEN [blocked |-> TRUE, message |-> MsgMultiStatement, sql |-> s]
        ELSE [blocked |-> FALSE]

\* ai_sql_guard with the multi-statement test before the keyword loop
ai_sql_guard_separatorFirst(s) ==
    LET sql_clean == Strip(LowerStr(s))
        k == FirstForbidden(sql_clean)
    IN  IF ~StartsWith(sql_clean, "select")
        THEN [blocked |-> TRUE, message |-> MsgReadOnly, sql |-> s]
        ELSE IF Contains(StripSet(sql_clean, {";"}), ";")
        THEN [blocked |-> TRUE, message |-> MsgMultiStatement, sql |-> s]
        ELSE IF k # 0
        THEN [blocked |-> TRUE, message |-> MsgCannotRun(forbidden[k]), sql |-> s]
        ELSE [blocked |-> FALSE]

\* ai_sql_guard that looks for the forbidden keywords as whole words
ai_sql_guard_wholeWords(s) ==
    LET sql_clean == Strip(LowerStr(s))
        hit(k) == SearchWord(sql_clean, forbidden[k])
    IN  IF ~StartsWith(sql_clean, "select")
        THEN [blocked |-> TRUE, message |-> MsgReadOnly, sql |-> s]
        ELSE IF \E k \in DOMAIN forbidden : hit(k)
        THEN [blocked |-> TRUE, sql |-> s,
              message |-> MsgCannotRun(forbidden[CHOOSE k \in DOMAIN forbidden :
                            hit(k) /\ \A j \in 1..(k - 1) : ~hit(j)])]
        ELSE IF Contains(StripSet(sql_clean, {";"}), ";")
        THEN [blocked |-> TRUE, message |-> MsgMultiStatement, sql |-> s]
        ELSE [blocked |-> FALSE]

ai_sql_guard(s) ==
    LET sql_clean == Strip(LowerStr(s))
        k == FirstForbidden(sql_clean)
    IN  IF ~StartsWith(sql_clean, "select")
        THEN [blocked |-> TRUE, message |-> MsgReadOnly, sql |-> s]
        ELSE IF k # 0
        THEN [blocked |-> TRUE, message |-> MsgCannotRun(forbidden[k]), sql |-> s]
        ELSE IF Contains(StripSet(sql_clean, {";"}), ";")
        THEN [blocked |-> TRUE, message |-> MsgMultiStatement, sql |-> s]
        ELSE [blocked |-> FALSE]

-----------------------------------------------------------------------------
(* is_sql_safe_for_role *)

SENSITIVE_TABLES == {"login_credentials"}

SENSITIVE_COLUMNS_ALWAYS == {"password"}

\* SENSITIVE_COLUMNS_BY_ROLE with salary hidden from teachers instead of students
SENSITIVE_COLUMNS_BY_ROLE_swapped(role_lower) ==
    CASE role_lower = "student" -> {}
      [] role_lower = "teacher" -> {"salary"}
      [] role_lower = "admin" -> {}
      [] OTHER -> {}

\* SENSITIVE_COLUMNS_BY_ROLE with salary hidden from every role
SENSITIVE_COLUMNS_BY_ROLE_salaryForAll(role_lower) ==
    CASE role_lower = "student" -> {"salary"}
      [] role_lower = "teacher" -> {"salary"}
      [] role_lower = "admin" -> {"salary"}
      [] OTHER -> {}

\* SENSITIVE_COLUMNS_BY_ROLE.get(role_lower, set())
SENSITIVE_COLUMNS_BY_ROLE(role_lower) ==
    CASE role_lower = "student" -> {"salary"}
      [] role_lower = "teacher" -> {}
      [] role_lower = "admin" -> {}
      [] OTHER -> {}

None == <<"None">>

student_denied_message == <<"student-denied">>

MsgTable(tbl) == <<"table-not-allowed", tbl>>

MsgColumn(col) == <<"column-not-allowed", col>>

MsgRoleColumn(role, col) == <<"role-column-not-allowed", role, col>>

\* the single element a one-element rule set yields to its for loop
TheHit(s, names) == CHOOSE n \in names : SearchWord(s, n)

\* is_sql_safe_for_role that lets the admin role skip the global rules
is_sql_safe_for_role_adminExempt(s, role, username) ==
    LET role_lower == Lower(role)
        blocked_cols == SENSITIVE_COLUMNS_BY_ROLE(role_lower)
    IN  IF role_lower = "admin" THEN None
        ELSE IF \E tbl \in SENSITIVE_TABLES : SearchWord(s, tbl)
        THEN IF role_lower = "student" THEN student_denied_message
             ELSE MsgTable(TheHit(s, SENSITIVE_TABLES))
        ELSE IF \E col \in SENSITIVE_COLUMNS_ALWAYS : SearchWord(s, col)
        THEN IF role_lower = "student" THEN student_denied_message
             ELSE MsgColumn(TheHit(s, SENSITIVE_COLUMNS_ALWAYS))
        ELSE IF \E col \in blocked_cols : SearchWord(s, col)
        THEN IF role_lower = "student" THEN student_denied_message
             ELSE MsgRoleColumn(role, TheHit(s, blocked_cols))
        ELSE None

\* is_sql_safe_for_role with the always-sensitive columns checked before the tables
is_sql_safe_for_role_columnsFirst(s, role, username) ==
    LET role_lower == Lower(role)
        blocked_cols == SENSITIVE_COLUMNS_BY_ROLE(role_lower)
    IN  IF \E col \in SENSITIVE_COLUMNS_ALWAYS : SearchWord(s, col)
        THEN IF role_lower = "student" THEN student_denied_message
             ELSE MsgColumn(TheHit(s, SENSITIVE_COLUMNS_ALWAYS))
        ELSE IF \E tbl \in SENSITIVE_TABLES : SearchWord(s, tbl)
        THEN IF role_lower = "student" THEN student_denied_message
             ELSE MsgTable(TheHit(s, SENSITIVE_TABLES))
        ELSE IF \E col \in blocked_cols : SearchWord(s, col)
        THEN IF role_lower = "student" THEN student_denied_message
             ELSE MsgRoleColumn(role, TheHit(s, blocked_cols))
        ELSE None

is_sql_safe_for_role(s, role, username) ==
    LET role_lower == Lower(role)
        blocked_cols == SENSITIVE_COLUMNS_BY_ROLE(role_lower)
    IN  IF \E tbl \in SENSITIVE_TABLES : SearchWord(s, tbl)
        THEN IF role_lower = "student" THEN student_denied_message
             ELSE MsgTable(TheHit(s, SENSITIVE_TABLES))
        ELSE IF \E col \in SENSITIVE_COLUMNS_ALWAYS : SearchWord(s, col)
        THEN IF role_lower = "student" THEN student_denied_message
             ELSE MsgColumn(TheHit(s, SENSITIVE_COLUMNS_ALWAYS))
        ELSE IF \E col \in blocked_cols : SearchWord(s, col)
        THEN IF role_lower = "student" THEN student_denied_message
             ELSE MsgRoleColumn(role, TheHit(s, blocked_cols))
        ELSE None

-----------------------------------------------------------------------------
(* post_filter_results_for_role *)

(* A value of a result row is [type, val]: type is the Python type sqlite3  *)
(* hands back ("str", "int", "NoneType") and val its text as a sequence of  *)
(* characters.  A username is a str, given by its characters.               *)

StrVal(chars) == [type |-> "str", val |-> chars]

IntVal(chars) == [type |-> "int", val |-> chars]

\* isinstance(val, str)
IsStr(v) == v.type = "str"

\* val != username, where username is a str
NotEqualStr(v, username) == ~(v.type = "str" /\ v.val = username)

\* val.startswith("T") on a str value
StartsWithT(v) == Len(v.val) >= 1 /\ v.val[1] = "T"

\* the student branch of the loop body: the value of `keep`
KeepForStudent(r, username) ==
    /\ ~("ID" \in DOMAIN r /\ IsStr(r["ID"]) /\ NotEqualStr(r["ID"], username))
    /\ ~("s_ID" \in DOMAIN r /\ NotEqualStr(r["s_ID"], username))

\* the teacher branch of the loop body: the value of `keep`
KeepForTeacher(r, username) ==
    /\ ~("ID" \in DOMAIN r /\ IsStr(r["ID"]) /\ StartsWithT(r["ID"])
            /\ NotEqualStr(r["ID"], username))
    /\ ~("i_ID" \in DOMAIN r /\ IsStr(r["i_ID"]) /\ StartsWithT(r["i_ID"])
            /\ NotEqualStr(r["i_ID"], username))

\* post_filter_results_for_role without the admin early return, every role
\* other than student going through the teacher branch
post_filter_results_for_role_noAdminReturn(rows, role, username) ==
    LET role_l == Lower(role)
        keep(r) == CASE role_l = "student" -> KeepForStudent(r, username)
                     [] OTHER -> KeepForTeacher(r, username)
    IN  SelectSeq(rows, keep)

\* a row filter that also drops the first of the rows it would keep
post_filter_results_for_role_dropsFirstKept(rows, role, username) ==
    LET role_l == Lower(role)
        keep(r) == CASE role_l = "student" -> KeepForStudent(r, username)
                     [] role_l = "teacher" -> KeepForTeacher(r, username)
                     [] OTHER -> TRUE
        filtered == SelectSeq(rows, keep)
    IN  IF role_l = "admin" THEN rows
        ELSE IF filtered = <<>> THEN filtered ELSE Tail(filtered)

\* a row filter that returns the kept rows newest first
post_filter_results_for_role_newestFirst(rows, role, username) ==
    LET role_l == Lower(role)
        keep(r) == CASE role_l = "student" -> KeepForStudent(r, username)
                     [] role_l = "teacher" -> KeepForTeacher(r, username)
                     [] OTHER -> TRUE
        filtered == SelectSeq(rows, keep)
    IN  IF role_l = "admin" THEN rows
        ELSE [i \in DOMAIN filtered |-> filtered[Len(filtered) + 1 - i]]

\* a row filter that treats every role it does not know as student
post_filter_results_for_role_unlistedAsStudent(rows, role, username) ==
    LET role_l == Lower(role)
        keep(r) == CASE role_l = "teacher" -> KeepForTeacher(r, username)
                     [] OTHER -> KeepForStudent(r, username)
    IN  IF role_l = "admin" THEN rows ELSE SelectSeq(rows, keep)

post_filter_results_for_role(rows, role, username) ==
    LET role_l == Lower(role)
        keep(r) == CASE role_l = "student" -> KeepForStudent(r, username)
                     [] role_l = "teacher" -> KeepForTeacher(r, username)
                     [] OTHER -> TRUE
    IN  IF role_l = "admin" THEN rows ELSE SelectSeq(rows, keep)

-----------------------------------------------------------------------------
(* Values the harness and the request take while unused *)

NoSql == <<"<unbound>">>

NoResponse == [status |-> "none"]

NoData == [username |-> <<>>, role |-> "none", query |-> <<>>]

NoCand == [kind |-> "none"]

NoRet == [kind |-> "none"]

NoSchema == <<[Table |-> "<unbound>", Schema |-> <<>>]>>

QueryIdle ==
    /\ pc = "idle"
    /\ data = NoData
    /\ client = FALSE
    /\ cand = NoCand
    /\ sql = NoSql
    /\ raw_results = <<>>
    /\ results = <<>>
    /\ result_str = <<>>
    /\ response = NoResponse
    /\ execCount = 0
    /\ guardVerdict = "none"
    /\ policyVerdict = <<"not-run">>
    /\ catalog = <<>>
    /\ schema_info = NoSchema
    /\ genCalls = 0
    /\ synthCalls = 0
    /\ arrived = 0

NoCall == [op |-> "none"]

NoReply == [code |-> 0, status |-> "none", message |-> <<>>]

\* the write paths are not exercised: no table is read or written
StoreIdle ==
    /\ login_credentials = {}
    /\ users = {}
    /\ student = {}
    /\ instructor = {}
    /\ section = {}
    /\ teaches = {}
    /\ takes = {}
    /\ call = NoCall
    /\ reply = NoReply

\* all sequences over S of length at most n
SeqsUpTo(S, n) == UNION {[1..k -> S] : k \in 0..n}

-----------------------------------------------------------------------------
(* SpecGuard: ai_sql_guard applied to every bounded candidate text *)

\* `create` followed by `d_at` spells the column created_at of the users table
GuardAtoms == {"select", "SELECT", "insert", "drop", "DROP", "create", "d_at",
               " ", ";", "x"}

InitGuard ==
    /\ called = "none"
    /\ arg_sql \in SeqsUpTo(GuardAtoms, MaxGuardLen)
    /\ arg_role = "none"
    /\ arg_username = <<>>
    /\ arg_results = <<>>
    /\ ret = NoRet
    /\ QueryIdle
    /\ StoreIdle

CallGuard ==
    /\ called = "none"
    /\ called' = "ai_sql_guard"
    /\ ret' = ai_sql_guard(arg_sql)
    /\ UNCHANGED <<arg_sql, arg_role, arg_username, arg_results>>
    /\ UNCHANGED queryVars
    /\ UNCHANGED storeVars

NextGuard == CallGuard

SpecGuard == InitGuard /\ [][NextGuard]_vars

-----------------------------------------------------------------------------
(* SpecPolicy: is_sql_safe_for_role applied to every bounded text and role *)

PolicyAtoms == {"select", "login_credentials", "LOGIN_CREDENTIALS", "password",
                "Password", "salary", "SALARY", " ", "x"}

PolicyRoles == {"student", "Student", "teacher", "admin", "ADMIN", "guest"}

InitPolicy ==
    /\ called = "none"
    /\ arg_sql \in SeqsUpTo(PolicyAtoms, MaxPolicyLen)
    /\ arg_role \in PolicyRoles
    /\ arg_username = <<"S", "1">>
    /\ arg_results = <<>>
    /\ ret = NoRet
    /\ QueryIdle
    /\ StoreIdle

CallPolicy ==
    /\ called = "none"
    /\ called' = "is_sql_safe_for_role"
    /\ ret' = is_sql_safe_for_role(arg_sql, arg_role, arg_username)
    /\ UNCHANGED <<arg_sql, arg_role, arg_username, arg_results>>
    /\ UNCHANGED queryVars
    /\ UNCHANGED storeVars

NextPolicy == CallPolicy

SpecPolicy == InitPolicy /\ [][NextPolicy]_vars

-----------------------------------------------------------------------------
(* SpecFilter: post_filter_results_for_role applied to bounded result lists *)

S1 == <<"S", "1">>
S2 == <<"S", "2">>
T1 == <<"T", "1">>
T2 == <<"T", "2">>
\* an instructor whose identifier is a registered username not starting with T
B2 == <<"b", "2">>

IdCols == {"ID", "s_ID", "i_ID"}

FilterValues == {StrVal(S1), StrVal(S2), StrVal(T1), StrVal(T2), StrVal(B2),
                 IntVal(<<"1">>)}

\* rows with no identity column, with one, and with two
RowUniverse ==
    {[c \in {"name"} |-> StrVal(<<"n">>)]}
    \cup {[c \in {col} |-> v] : col \in IdCols, v \in FilterValues}
    \cup {[c \in {"ID", "s_ID"} |-> IF c = "ID" THEN StrVal(a) ELSE StrVal(b)] :
            a \in {S1, S2}, b \in {S1, S2}}
    \cup {[c \in {"ID", "i_ID"} |-> IF c = "ID" THEN StrVal(a) ELSE StrVal(b)] :
            a \in {S1, T1}, b \in {T1, T2}}

FilterRoles == {"student", "teacher", "admin", "ADMIN", "guest"}

FilterUsers == {S1, T1}

InitFilter ==
    /\ called = "none"
    /\ arg_sql = <<>>
    /\ arg_role \in FilterRoles
    /\ arg_username \in FilterUsers
    /\ arg_results \in SeqsUpTo(RowUniverse, MaxRows)
    /\ ret = NoRet
    /\ QueryIdle
    /\ StoreIdle

CallFilter ==
    /\ called = "none"
    /\ called' = "post_filter_results_for_role"
    /\ ret' = post_filter_results_for_role(arg_results, arg_role, arg_username)
    /\ UNCHANGED <<arg_sql, arg_role, arg_username, arg_results>>
    /\ UNCHANGED queryVars
    /\ UNCHANGED storeVars

NextFilter == CallFilter

SpecFilter == InitFilter /\ [][NextFilter]_vars

-----------------------------------------------------------------------------
(* The store the executor reads, and what sqlite does with a candidate *)

A0 == <<"a", "0">>

\* columns of the tables of setup.py that the candidates range over
TableColumns(tbl) ==
    CASE tbl = "student" -> {"ID", "name"}
      [] tbl = "instructor" -> {"ID", "name", "salary"}
      [] tbl = "advisor" -> {"s_ID", "i_ID"}
      [] tbl = "login_credentials" -> {"username", "password"}

\* the column that holds the identity a row of the table belongs to
OwnerColumn(tbl) ==
    CASE tbl = "student" -> "ID"
      [] tbl = "instructor" -> "ID"
      [] tbl = "advisor" -> "s_ID"
      [] tbl = "login_credentials" -> "username"

\* rows of the store: two students, a seeded and an approved instructor
Store(tbl) ==
    CASE tbl = "student" ->
            <<[ID |-> StrVal(S1), name |-> StrVal(<<"A">>)],
              [ID |-> StrVal(S2), name |-> StrVal(<<"B">>)]>>
      [] tbl = "instructor" ->
            <<[ID |-> StrVal(T1), name |-> StrVal(<<"C">>), salary |-> IntVal(<<"8">>)],
              [ID |-> StrVal(B2), name |-> StrVal(<<"D">>), salary |-> IntVal(<<"3">>)]>>
      [] tbl = "advisor" ->
            <<[s_ID |-> StrVal(S1), i_ID |-> StrVal(T1)],
              [s_ID |-> StrVal(S2), i_ID |-> StrVal(B2)]>>
      [] tbl = "login_credentials" ->
            <<[username |-> StrVal(S1), password |-> StrVal(<<"p">>)],
              [username |-> StrVal(S2), password |-> StrVal(<<"q">>)]>>

Tables == {"student", "instructor", "advisor", "login_credentials"}

\* the order in which create_tables creates them, which sqlite_master keeps
CreationOrder == <<"instructor", "student", "advisor", "login_credentials">>

\* the sqlite_master row of a table: its name and its CREATE TABLE text
MasterRow(tbl) == [name |-> tbl, sql |-> <<"CREATE TABLE", tbl>>]

\* sqlite_master of a store that holds the tables of S
CatalogOf(S) ==
    LET present(tbl) == tbl \in S
        kept == SelectSeq(CreationOrder, present)
    IN  [i \in DOMAIN kept |-> MasterRow(kept[i])]

\* every content of the catalog over the tables of setup.py
Catalogs == {CatalogOf(S) : S \in SUBSET Tables}

\* the names of the tables the store holds
CatalogNames == {catalog[i].name : i \in DOMAIN catalog}

\* select lists the generator may write
ColumnLists == {<<"*">>, <<"ID">>, <<"name">>, <<"ID", "name">>, <<"salary">>,
                <<"s_ID", "i_ID">>, <<"password">>}

\* what the generator may put after the query
Tails == {<<>>, <<";">>, <<";", " ", "DROP", " ", "table", " ", "student", ";">>}

\* the candidates of the generator: lead cols FROM tbl [WHERE owner = 'filt'] tail
Candidates ==
    [kind : {"query"},
     lead : {"select", "SELECT", "drop"},
     cols : ColumnLists,
     tbl  : Tables,
     filt : {<<>>, S1, S2},
     tail : Tails]

RECURSIVE JoinComma(_)
JoinComma(cols) ==
    IF Len(cols) <= 1 THEN cols
    ELSE <<Head(cols), ",">> \o JoinComma(Tail(cols))

\* the text of the completion (sql_response.text)
Text(c) ==
    <<c.lead, " ">> \o JoinComma(c.cols) \o <<" ", "from", " ", c.tbl>>
    \o (IF c.filt = <<>> THEN <<>>
        ELSE <<" ", "where", " ", OwnerColumn(c.tbl), "=", "'">> \o c.filt \o <<"'">>)
    \o c.tail

\* the row restricted to the selected columns
Project(r, cols) ==
    IF cols = <<"*">> THEN r
    ELSE [col \in {cols[i] : i \in DOMAIN cols} |-> r[col]]

\* conn.execute(sql) followed by fetchall: rows, or a sqlite3.Error
Exec(c) ==
    LET match(r) == c.filt = <<>> \/ r[OwnerColumn(c.tbl)] = StrVal(c.filt)
        hit == SelectSeq(Store(c.tbl), match)
    IN  IF c.tail \notin {<<>>, <<";">>}
        THEN [kind |-> "error", text |-> <<"one statement at a time">>]
        ELSE IF Lower(c.lead) # "select"
        THEN [kind |-> "error", text |-> <<"syntax error">>]
        ELSE IF c.tbl \notin CatalogNames
        THEN [kind |-> "error", text |-> <<"no such table">>]
        ELSE IF c.cols # <<"*">>
                /\ \E i \in DOMAIN c.cols : c.cols[i] \notin TableColumns(c.tbl)
        THEN [kind |-> "error", text |-> <<"no such column">>]
        ELSE [kind |-> "rows",
              rows |-> [i \in DOMAIN hit |-> Project(hit[i], c.cols)]]

\* repr of a value inside str(row): a str is quoted, an int is not
Repr(v) == IF v.type = "str" THEN <<"'">> \o v.val \o <<"'">> ELSE v.val

\* str(row): the column names with the repr of their values
RowText(r) == {<<col, Repr(r[col])>> : col \in DOMAIN r}

\* "\n".join([str(row) for row in results])
ResultText(rows) == [i \in DOMAIN rows |-> RowText(rows[i])]

-----------------------------------------------------------------------------
(* ai_query *)

\* the list `dangerous_keywords`
dangerous_keywords == {"drop", "delete", "update", "insert", "alter", "create", "truncate"}

MsgWriteIntent == <<"read-only access">>

MsgDisabled == <<"AI is currently disabled">>

MsgOnlySelect == <<"I can only execute SELECT queries">>

\* f"AI error: Failed to process query due to API issue. Details: {e}"
MsgApiError == <<"AI error: API issue">>

\* f"AI error: An internal error occurred. Details: {e}"
MsgInternal(e) == <<"AI error: internal">> \o e

\* str() of the HTTPException get_db_connection raises for any sqlite3.Error
DbFailure == <<"500: Database connection failed">>

\* str() of any other exception a completion raises, a timeout for one
Timeout == <<"timed out">>

NA == <<"N/A">>

\* the answers the second completion may give
Answers == {<<"answer">>, <<"no matching records">>}

Questions == {<<"show", " ", "grades">>, <<"Delete", " ", "x">>}

Callers == {[username |-> S1, role |-> "student"],
            [username |-> T1, role |-> "teacher"],
            [username |-> A0, role |-> "admin"],
            [username |-> B2, role |-> "guest"]}

Requests == {[username |-> c.username, role |-> c.role, query |-> q] :
                c \in Callers, q \in Questions}

HarnessIdle ==
    /\ called = "none"
    /\ arg_sql = <<>>
    /\ arg_role = "none"
    /\ arg_username = <<>>
    /\ arg_results = <<>>
    /\ ret = NoRet

NotRun == <<"not-run">>

\* the locals of a request that has just arrived
Fresh ==
    /\ pc' = "start"
    /\ cand' = NoCand
    /\ sql' = NoSql
    /\ raw_results' = <<>>
    /\ results' = <<>>
    /\ result_str' = <<>>
    /\ response' = NoResponse
    /\ execCount' = 0
    /\ guardVerdict' = "none"
    /\ policyVerdict' = NotRun
    /\ schema_info' = NoSchema
    /\ genCalls' = 0
    /\ synthCalls' = 0

Init ==
    /\ HarnessIdle
    /\ StoreIdle
    /\ arrived = 1
    /\ pc = "start"
    /\ data \in Requests
    /\ client \in BOOLEAN
    /\ cand = NoCand
    /\ sql = NoSql
    /\ raw_results = <<>>
    /\ results = <<>>
    /\ result_str = <<>>
    /\ response = NoResponse
    /\ execCount = 0
    /\ guardVerdict = "none"
    /\ policyVerdict = NotRun
    /\ catalog \in Catalogs
    /\ schema_info = NoSchema
    /\ genCalls = 0
    /\ synthCalls = 0

\* return {...}: the request ends with this response
Return(status, text, sql_query) ==
    /\ response' = [status |-> status, response |-> text, sql_query |-> sql_query]
    /\ pc' = "done"

\* Enter that looks for the keywords in the question as typed, not lower-cased
Enter_caseSensitive ==
    /\ pc = "start"
    /\ IF \E keyword \in dangerous_keywords : Contains(data.query, keyword)
       THEN Return("fail", MsgWriteIntent, NA)
       ELSE IF ~client
       THEN Return("fail", MsgDisabled, NA)
       ELSE pc' = "generate" /\ UNCHANGED response
    /\ UNCHANGED <<data, client, cand, sql, raw_results, results, result_str,
                   execCount, guardVerdict, policyVerdict>>
    /\ UNCHANGED auditVars
    /\ UNCHANGED arrived
    /\ UNCHANGED harnessVars
    /\ UNCHANGED storeVars

\* Enter without the `if not client` test
Enter_noClientCheck ==
    /\ pc = "start"
    /\ LET query_lower == LowerStr(data.query)
       IN  IF \E keyword \in dangerous_keywords : Contains(query_lower, keyword)
           THEN Return("fail", MsgWriteIntent, NA)
           ELSE pc' = "generate" /\ UNCHANGED response
    /\ UNCHANGED <<data, client, cand, sql, raw_results, results, result_str,
                   execCount, guardVerdict, policyVerdict>>
    /\ UNCHANGED auditVars
    /\ UNCHANGED arrived
    /\ UNCHANGED harnessVars
    /\ UNCHANGED storeVars

\* lines 1422-1446: the keyword block on the question, then the client check
Enter ==
    /\ pc = "start"
    /\ LET query_lower == LowerStr(data.query)
       IN  IF \E keyword \in dangerous_keywords : Contains(query_lower, keyword)
           THEN Return("fail", MsgWriteIntent, NA)
           ELSE IF ~client
           THEN Return("fail", MsgDisabled, NA)
           ELSE pc' = "generate" /\ UNCHANGED response
    /\ UNCHANGED <<data, client, cand, sql, raw_results, results, result_str,
                   execCount, guardVerdict, policyVerdict>>
    /\ UNCHANGED auditVars
    /\ UNCHANGED arrived
    /\ UNCHANGED harnessVars
    /\ UNCHANGED storeVars

\* VisibleTables without the test against SENSITIVE_TABLES
VisibleTables_all(tables) == tables

\* lines 1455-1457: visible_tables
VisibleTables(tables) ==
    LET visible(t) == t.name \notin SENSITIVE_TABLES
    IN  SelectSeq(tables, visible)

\* lines 1458-1460: schema_info, one "Table: .. Schema: .." entry per visible table
SchemaInfo(tables) ==
    LET visible_tables == VisibleTables(tables)
    IN  [i \in DOMAIN visible_tables |->
            [Table |-> visible_tables[i].name, Schema |-> visible_tables[i].sql]]

\* lines 1449-1498: the schema read and the first completion, sql = text.strip()
GenerateSql ==
    /\ pc = "generate"
    /\ \/ /\ schema_info' = SchemaInfo(catalog)
          /\ genCalls' = genCalls + 1
          /\ \/ \E c \in Candidates :
                    /\ cand' = c
                    /\ sql' = Strip(Text(c))
                    /\ pc' = "guard"
                    /\ UNCHANGED response
             \/ /\ Return("fail", MsgApiError, NA)
                /\ UNCHANGED <<cand, sql>>
             \/ /\ Return("fail", MsgInternal(Timeout), NA)
                /\ UNCHANGED <<cand, sql>>
       \/ /\ Return("fail", MsgInternal(DbFailure), NA)
          /\ UNCHANGED <<cand, sql, schema_info, genCalls>>
    /\ UNCHANGED <<data, client, raw_results, results, result_str,
                   execCount, guardVerdict, policyVerdict>>
    /\ UNCHANGED <<catalog, synthCalls>>
    /\ UNCHANGED arrived
    /\ UNCHANGED harnessVars
    /\ UNCHANGED storeVars

\* SyntaxGuard that asks is_sql_safe_for_role first and reports its message
SyntaxGuard_policyFirst ==
    /\ pc = "guard"
    /\ LET guard == ai_sql_guard(sql)
           normalized_sql == Strip(UpperStr(sql))
           error_msg == is_sql_safe_for_role(sql, data.role, data.username)
       IN  IF error_msg # None
           THEN /\ policyVerdict' = error_msg
                /\ UNCHANGED guardVerdict
                /\ Return("fail", error_msg, sql)
           ELSE /\ UNCHANGED policyVerdict
                /\ IF guard.blocked
                   THEN /\ guardVerdict' = "blocked"
                        /\ Return("fail", guard.message, guard.sql)
                   ELSE IF ~StartsWith(normalized_sql, "SELECT")
                   THEN /\ guardVerdict' = "passed"
                        /\ Return("fail", MsgOnlySelect, sql)
                   ELSE /\ guardVerdict' = "passed"
                        /\ pc' = "policy"
                        /\ UNCHANGED response
    /\ UNCHANGED <<data, client, cand, sql, raw_results, results, result_str,
                   execCount>>
    /\ UNCHANGED auditVars
    /\ UNCHANGED arrived
    /\ UNCHANGED harnessVars
    /\ UNCHANGED storeVars

\* lines 1500-1521: ai_sql_guard, then the check on normalized_sql
SyntaxGuard ==
    /\ pc = "guard"
    /\ LET guard == ai_sql_guard(sql)
           normalized_sql == Strip(UpperStr(sql))
       IN  IF guard.blocked
           THEN /\ guardVerdict' = "blocked"
                /\ Return("fail", guard.message, guard.sql)
           ELSE IF ~StartsWith(normalized_sql, "SELECT")
           THEN /\ guardVerdict' = "passed"
                /\ Return("fail", MsgOnlySelect, sql)
           ELSE /\ guardVerdict' = "passed"
                /\ pc' = "policy"
                /\ UNCHANGED response
    /\ UNCHANGED <<data, client, cand, sql, raw_results, results, result_str,
                   execCount, policyVerdict>>
    /\ UNCHANGED auditVars
    /\ UNCHANGED arrived
    /\ UNCHANGED harnessVars
    /\ UNCHANGED storeVars

\* RolePolicy that records the verdict and goes on to the executor whatever it is
RolePolicy_ignoresVerdict ==
    /\ pc = "policy"
    /\ policyVerdict' = is_sql_safe_for_role(sql, data.role, data.username)
    /\ pc' = "execute"
    /\ UNCHANGED <<data, client, cand, sql, raw_results, results, result_str,
                   response, execCount, guardVerdict>>
    /\ UNCHANGED auditVars
    /\ UNCHANGED arrived
    /\ UNCHANGED harnessVars
    /\ UNCHANGED storeVars

\* lines 1523-1533: is_sql_safe_for_role
RolePolicy ==
    /\ pc = "policy"
    /\ LET error_msg == is_sql_safe_for_role(sql, data.role, data.username)
       IN  /\ policyVerdict' = error_msg
           /\ IF error_msg # None
              THEN Return("fail", error_msg, sql)
              ELSE pc' = "execute" /\ UNCHANGED response
    /\ UNCHANGED <<data, client, cand, sql, raw_results, results, result_str,
                   execCount, guardVerdict>>
    /\ UNCHANGED auditVars
    /\ UNCHANGED arrived
    /\ UNCHANGED harnessVars
    /\ UNCHANGED storeVars

\* lines 1536-1538: conn.execute(sql); a sqlite3.Error leaves get_db_connection
\* as an HTTPException, which the `except Exception` clause of ai_query reports
Execute ==
    /\ pc = "execute"
    /\ execCount' = execCount + 1
    /\ LET out == Exec(cand)
       IN  IF out.kind = "error"
           THEN /\ Return("fail", MsgInternal(DbFailure), NA)
                /\ UNCHANGED raw_results
           ELSE /\ raw_results' = out.rows
                /\ pc' = "filter"
                /\ UNCHANGED response
    /\ UNCHANGED <<data, client, cand, sql, results, result_str,
                   guardVerdict, policyVerdict>>
    /\ UNCHANGED auditVars
    /\ UNCHANGED arrived
    /\ UNCHANGED harnessVars
    /\ UNCHANGED storeVars

\* lines 1541-1545: the row filter and the result text
FilterRows ==
    /\ pc = "filter"
    /\ results' = post_filter_results_for_role(raw_results, data.role, data.username)
    /\ result_str' = ResultText(results')
    /\ pc' = "synthesize"
    /\ UNCHANGED <<data, client, cand, sql, raw_results, response,
                   execCount, guardVerdict, policyVerdict>>
    /\ UNCHANGED auditVars
    /\ UNCHANGED arrived
    /\ UNCHANGED harnessVars
    /\ UNCHANGED storeVars

\* Synthesize that asks for a new candidate when the second completion fails
Synthesize_retriesGeneration ==
    /\ pc = "synthesize"
    /\ synthCalls' = synthCalls + 1
    /\ \/ \E answer \in Answers : Return("success", answer, sql)
       \/ pc' = "generate" /\ UNCHANGED response
    /\ UNCHANGED <<data, client, cand, sql, raw_results, results, result_str,
                   execCount, guardVerdict, policyVerdict>>
    /\ UNCHANGED <<catalog, schema_info, genCalls>>
    /\ UNCHANGED arrived
    /\ UNCHANGED harnessVars
    /\ UNCHANGED storeVars

\* lines 1560-1573: the second completion
Synthesize ==
    /\ pc = "synthesize"
    /\ synthCalls' = synthCalls + 1
    /\ \/ \E answer \in Answers : Return("success", answer, sql)
       \/ Return("fail", MsgApiError, NA)
       \/ Return("fail", MsgInternal(Timeout), NA)
    /\ UNCHANGED <<data, client, cand, sql, raw_results, results, result_str,
                   execCount, guardVerdict, policyVerdict>>
    /\ UNCHANGED <<catalog, schema_info, genCalls>>
    /\ UNCHANGED arrived
    /\ UNCHANGED harnessVars
    /\ UNCHANGED storeVars

\* NewRequest with the locals of the request before it still bound
NewRequest_keepsLocals ==
    /\ pc = "done"
    /\ arrived < MaxRequests
    /\ arrived' = arrived + 1
    /\ data' \in Requests
    /\ pc' = "start"
    /\ UNCHANGED <<cand, sql, raw_results, results, result_str, response,
                   execCount, guardVerdict, policyVerdict, schema_info,
                   genCalls, synthCalls>>
    /\ UNCHANGED <<client, catalog>>
    /\ UNCHANGED harnessVars
    /\ UNCHANGED storeVars

\* the next request arrives: its locals are new, the module global stays
NewRequest ==
    /\ pc = "done"
    /\ arrived < MaxRequests
    /\ arrived' = arrived + 1
    /\ data' \in Requests
    /\ Fresh
    /\ UNCHANGED <<client, catalog>>
    /\ UNCHANGED harnessVars
    /\ UNCHANGED storeVars

Next ==
    \/ Enter
    \/ GenerateSql
    \/ SyntaxGuard
    \/ RolePolicy
    \/ Execute
    \/ FilterRows
    \/ Synthesize
    \/ NewRequest

Spec == Init /\ [][Next]_vars

-----------------------------------------------------------------------------
(* Vocabulary of the claims, stated on the text and not on the code's steps *)

\* the word w (lower case) occurs in s in some letter case, with a character
\* that is not a letter, digit or underscore, or an end of the text, on each side
HasWholeWord(s, w) ==
    \E i \in DOMAIN s :
        /\ Lower(s[i]) = w
        /\ (i > 1 => s[i - 1] \in NonWordAtoms)
        /\ (i < Len(s) => s[i + 1] \in NonWordAtoms)

\* the word w (lower case) occurs anywhere in s, in some letter case
HasSubstring(s, w) == \E i \in DOMAIN s : Lower(s[i]) = w

\* the text, trimmed of whitespace and then case-folded, begins with select
BeginsWithSelect(s) ==
    LET t == Strip(s) IN t # <<>> /\ Lower(Head(t)) = "select"

\* the message spells the keyword, in some letter case
Cites(message, w) == \E i \in DOMAIN message : Lower(message[i]) = w

ForbiddenWords == {forbidden[k] : k \in DOMAIN forbidden}

GuardCalled == called = "ai_sql_guard"

PolicyCalled == called = "is_sql_safe_for_role"

FilterCalled == called = "post_filter_results_for_role"

-----------------------------------------------------------------------------
(* C5 - C10 *)

\* C5: for role admin in any letter case the row filter returns exactly its
\* input: the same rows in the same order.
C5_AdminNoOp ==
    (FilterCalled /\ Lower(arg_role) = "admin") => ret = arg_results

C5_Witness ==
    /\ FilterCalled
    /\ arg_role = "ADMIN"
    /\ arg_username = T1
    /\ arg_results = <<[c \in {"ID"} |-> StrVal(T2)], [c \in {"i_ID"} |-> StrVal(T2)]>>
    /\ ret = arg_results

\* C6: for every role, a candidate naming login_credentials or password as a
\* whole word in any letter case is rejected; a student gets the student-scoped
\* message, every other role a generic message naming the table or the column.
C6_GlobalRulesEveryRole ==
    (PolicyCalled /\ (HasWholeWord(arg_sql, "login_credentials")
                        \/ HasWholeWord(arg_sql, "password")))
    => /\ ret # None
       /\ Lower(arg_role) = "student" => ret = student_denied_message
       /\ Lower(arg_role) # "student" =>
            \/ ret = MsgTable("login_credentials")
                 /\ HasWholeWord(arg_sql, "login_credentials")
            \/ ret = MsgColumn("password") /\ HasWholeWord(arg_sql, "password")

C6_Witness ==
    /\ PolicyCalled
    /\ arg_role = "ADMIN"
    /\ arg_sql = <<"select", " ", "Password">>
    /\ ret = MsgColumn("password")

\* C7: a candidate naming salary as a whole word and no globally sensitive
\* table or column is rejected for role student and accepted (None) for roles
\* teacher and admin.
C7_SalaryByRole ==
    (/\ PolicyCalled
     /\ HasWholeWord(arg_sql, "salary")
     /\ ~HasWholeWord(arg_sql, "login_credentials")
     /\ ~HasWholeWord(arg_sql, "password"))
    => /\ arg_role = "student" => ret # None
       /\ arg_role \in {"teacher", "admin"} => ret = None

C7_Witness ==
    /\ PolicyCalled
    /\ arg_role = "teacher"
    /\ arg_sql = <<"select", " ", "SALARY">>
    /\ ret = None

\* C8: exactly one violation is reported, the table rule before the
\* always-sensitive column rule: for a non-student role a candidate naming
\* both login_credentials and password yields the message about the table.
C8_TableBeforeColumn ==
    (PolicyCalled /\ Lower(arg_role) # "student")
    => /\ HasWholeWord(arg_sql, "login_credentials")
            => ret = MsgTable("login_credentials")
       /\ (~HasWholeWord(arg_sql, "login_credentials")
             /\ HasWholeWord(arg_sql, "password"))
            => ret = MsgColumn("password")

C8_Witness ==
    /\ PolicyCalled
    /\ arg_role = "teacher"
    /\ arg_sql = <<"password", " ", "LOGIN_CREDENTIALS">>
    /\ ret = MsgTable("login_credentials")

\* C9: every candidate whose text, trimmed of whitespace and case-folded, does
\* not begin with select is blocked.
C9_NonSelectBlocked ==
    (GuardCalled /\ ~BeginsWithSelect(arg_sql)) => ret.blocked = TRUE

C9_Witness ==
    /\ GuardCalled
    /\ arg_sql = <<" ", "x", " ", "SELECT", ";">>
    /\ ret.blocked = TRUE
    /\ ret.message = MsgReadOnly

-----------------------------------------------------------------------------
(* C3, C4 *)

\* the row has a student identity column (ID or s_ID) whose value, of whatever
\* type, is not the caller's username
ForeignStudentRow(r, username) ==
    \E c \in {"ID", "s_ID"} \cap DOMAIN r : r[c] # StrVal(username)

\* C3: for role student the row filter removes every row that has an identity
\* column (ID or s_ID) whose value differs from the caller's username, whatever
\* the type of the value, and keeps every row without an identity column.
C3_StudentSeesOwnRowsOnly ==
    (FilterCalled /\ arg_role = "student")
    => /\ \A i \in DOMAIN ret : ~ForeignStudentRow(ret[i], arg_username)
       /\ \A i \in DOMAIN arg_results :
            ({"ID", "s_ID"} \cap DOMAIN arg_results[i] = {})
                => \E j \in DOMAIN ret : ret[j] = arg_results[i]

\* the identifiers of the instructor table: seeded ones start with T, an
\* approved teacher's is the username it registered with
InstructorIds == {T1, T2, B2}

\* the row carries an instructor-owning identity column (an instructor's ID,
\* or advisor.i_ID) whose value is not the caller's username
ForeignInstructorRow(r, username) ==
    \/ "i_ID" \in DOMAIN r /\ r["i_ID"] # StrVal(username)
    \/ /\ "ID" \in DOMAIN r
       /\ r["ID"] \in {StrVal(id) : id \in InstructorIds}
       /\ r["ID"] # StrVal(username)

\* C4: for role teacher the row filter keeps each row that carries no
\* instructor-owning identity column and keeps a row that carries one only if
\* its value is the caller's username, for every instructor identifier.
C4_TeacherSeesOwnInstructorRowsOnly ==
    (FilterCalled /\ arg_role = "teacher")
    => \A i \in DOMAIN ret : ~ForeignInstructorRow(ret[i], arg_username)

-----------------------------------------------------------------------------
(* C1, C2 *)

\* the candidate of the running request is rejected by one of the two guards
Rejected ==
    \/ ai_sql_guard(sql).blocked
    \/ is_sql_safe_for_role(sql, data.role, data.username) # None

\* C1: the executor is reached only for a candidate that ai_sql_guard did not
\* block and for which is_sql_safe_for_role returned None for the caller's
\* role; when either guard rejects, the request ends with status fail and the
\* candidate is never executed.
C1_ExecutedOnlyIfVetted ==
    /\ (pc = "execute" \/ execCount > 0)
        => (guardVerdict = "passed" /\ policyVerdict = None /\ ~Rejected)
    /\ (guardVerdict = "blocked" \/ policyVerdict \notin {NotRun, None})
        => (pc = "done" /\ response.status = "fail" /\ execCount = 0)
    /\ (sql # NoSql /\ pc \notin {"guard", "policy"} /\ Rejected)
        => (pc = "done" /\ response.status = "fail" /\ execCount = 0)

C1_Witness ==
    /\ execCount = 1
    /\ pc = "filter"
    /\ data.role = "student"
    /\ guardVerdict = "passed"
    /\ policyVerdict = None
    /\ raw_results # <<>>

\* the tables whose rows belong to one student
StudentScoped == {"student", "advisor"}

\* rows of the candidate's table that belong to another identity than the caller
ForeignStoreRows ==
    {r \in {Store(cand.tbl)[i] : i \in DOMAIN Store(cand.tbl)} :
        r[OwnerColumn(cand.tbl)] # StrVal(data.username)}

\* C2: for a student caller and any candidate over an identity-scoped table,
\* filtered or not by the caller's ID and with any projection, no row of a
\* different identity is in the result text handed to the Answer Synthesizer,
\* and the request that reaches the synthesizer finishes with status success
\* unless the provider fails.
C2_NoForeignRowReachesAnswer ==
    (/\ data.role = "student"
     /\ cand # NoCand
     /\ cand.tbl \in StudentScoped
     /\ execCount = 1
     /\ pc \in {"synthesize", "done"})
    => /\ \A r \in ForeignStoreRows :
            \A i \in DOMAIN result_str : result_str[i] # RowText(Project(r, cand.cols))
       /\ (pc = "done" /\ response.response \in Answers) => response.status = "success"

-----------------------------------------------------------------------------
(* C11 *)

\* C11: every candidate in which ';' occurs anywhere other than as one single
\* trailing character is rejected; so is a candidate that ends in two or more
\* ';' characters or begins with ';'.
C11_SeparatorOnlyAsOneTrailer ==
    LET text == Strip(arg_sql)
    IN  (GuardCalled /\ \E i \in 1..(Len(text) - 1) : text[i] = ";")
            => ret.blocked = TRUE

-----------------------------------------------------------------------------
(* C12 *)

\* SELECT name FROM student WHERE ID='X'; DROP TABLE student;
ScenarioD(c) ==
    /\ c.kind = "query"
    /\ Lower(c.lead) = "select"
    /\ c.cols = <<"name">>
    /\ c.tbl = "student"
    /\ c.filt # <<>>
    /\ c.tail = <<";", " ", "DROP", " ", "table", " ", "student", ";">>

\* C12 as stated: for the scenario-D candidate the Syntax Guard rejects with
\* the multi-statement reason and the candidate never reaches the Executor.
C12_RejectedAsMultiStatement ==
    (ScenarioD(cand) /\ pc # "guard")
    => /\ pc = "done"
       /\ response.status = "fail"
       /\ response.response = MsgMultiStatement
       /\ execCount = 0

\* C12 amended: for the scenario-D candidate the Syntax Guard rejects, with
\* the message that DROP commands cannot be run, and the candidate never
\* reaches the Executor.
C12_RejectedCitingDrop ==
    (ScenarioD(cand) /\ pc # "guard")
    => /\ pc = "done"
       /\ guardVerdict = "blocked"
       /\ response.status = "fail"
       /\ response.response = <<"cannot-run", "DROP">>
       /\ response.sql_query = sql
       /\ execCount = 0

C12_Witness ==
    /\ ScenarioD(cand)
    /\ cand.lead = "SELECT"
    /\ cand.filt = S2
    /\ pc = "done"
    /\ response.response = <<"cannot-run", "DROP">>
    /\ execCount = 0

-----------------------------------------------------------------------------
(* C13, C14 *)

\* the question contains a write-intent keyword, in some letter case
WriteIntent(question) == \E w \in ForbiddenWords : HasSubstring(question, w)

\* C13: for every role and every question that contains a write-intent
\* keyword, the request ends with status fail and sql_query N/A before any
\* generation call, schema read or query execution.
C13_WriteIntentStopsAtEntry ==
    (WriteIntent(data.query) /\ pc # "start")
    => /\ pc = "done"
       /\ response.status = "fail"
       /\ response.sql_query = NA
       /\ genCalls = 0
       /\ synthCalls = 0
       /\ schema_info = NoSchema
       /\ execCount = 0

C13_Witness ==
    /\ data.query = <<"Delete", " ", "x">>
    /\ data.role = "teacher"
    /\ client = TRUE
    /\ pc = "done"
    /\ response.sql_query = NA
    /\ genCalls = 0

\* C14 as stated: with no provider (client is None) every question, whatever
\* its content, gets status fail, the fixed disabled message and sql_query N/A.
C14_DisabledWhateverTheQuestion ==
    (~client /\ pc \notin {"start", "idle"})
    => /\ pc = "done"
       /\ response = [status |-> "fail", response |-> MsgDisabled, sql_query |-> NA]

\* C14 amended: with no provider every question gets status fail and
\* sql_query N/A; the message is the fixed disabled message when the question
\* contains no write-intent keyword and the read-only refusal when it does.
C14_DisabledUnlessWriteIntent ==
    (~client /\ pc \notin {"start", "idle"})
    => /\ pc = "done"
       /\ response.status = "fail"
       /\ response.sql_query = NA
       /\ response.response =
            IF WriteIntent(data.query) THEN MsgWriteIntent ELSE MsgDisabled
       /\ genCalls = 0

C14_Witness ==
    /\ ~client
    /\ data.query = <<"show", " ", "grades">>
    /\ pc = "done"
    /\ response = [status |-> "fail", response |-> MsgDisabled, sql_query |-> NA]

-----------------------------------------------------------------------------
(* C15 *)

\* the request of an admin whose candidate the Role Policy Filter has judged
AdminJudged == data.role = "admin" /\ policyVerdict # NotRun

\* the rows of the executor have gone through the row filter
RowsFiltered == pc = "synthesize" \/ (pc = "done" /\ synthCalls = 1)

\* C15 as stated: for role admin is_sql_safe_for_role returns None for every
\* candidate that passed the Syntax Guard, and every row the Executor
\* returned reaches the answer stage.
C15_AdminFiltersAreNoOps ==
    /\ AdminJudged => policyVerdict = None
    /\ (data.role = "admin" /\ RowsFiltered)
        => (results = raw_results /\ result_str = ResultText(raw_results))

\* C15 amended: for role admin is_sql_safe_for_role returns None for every
\* candidate that passed the Syntax Guard and names neither login_credentials
\* nor password as a whole word, and every row the Executor returned reaches
\* the answer stage.
C15_AdminOnlyGlobalRules ==
    /\ (/\ AdminJudged
        /\ ~HasWholeWord(sql, "login_credentials")
        /\ ~HasWholeWord(sql, "password"))
        => policyVerdict = None
    /\ (data.role = "admin" /\ RowsFiltered)
        => (results = raw_results /\ result_str = ResultText(raw_results))

C15_Witness ==
    /\ data.role = "admin"
    /\ cand # NoCand
    /\ cand.cols = <<"salary">>
    /\ cand.tbl = "instructor"
    /\ policyVerdict = None
    /\ pc = "synthesize"
    /\ Len(raw_results) = 2
    /\ results = raw_results

-----------------------------------------------------------------------------
(* C16 - C20 *)

\* the executor raised on the candidate of this request
ExecutionFailed == pc = "done" /\ execCount = 1 /\ synthCalls = 0

\* the second completion raised
SynthesisFailed == pc = "done" /\ synthCalls = 1 /\ response.status = "fail"

\* C16: in every response sql_query is the candidate text whenever a candidate
\* had been produced before the request ended, and N/A only when none exists;
\* status is fail for every guard rejection, execution error and provider
\* failure.
C16_CandidateAlwaysSurfaced ==
    pc = "done"
    => /\ sql # NoSql => response.sql_query = sql
       /\ sql = NoSql => response.sql_query = NA
       /\ (guardVerdict = "blocked" \/ policyVerdict \notin {NotRun, None}
             \/ ExecutionFailed \/ response.response \notin Answers)
            => response.status = "fail"

\* what a response has to spell to tell whether the filtered result was empty
EmptinessNotice(rows) == IF rows = <<>> THEN "no rows" ELSE "rows"

\* C17: when the second completion fails after the candidate was executed and
\* row-filtered, the response still tells whether the filtered result was
\* empty or not, instead of discarding the executed result.
C17_ResultSurvivesSynthesisFailure ==
    SynthesisFailed
    => \E i \in DOMAIN response.response :
            response.response[i] = EmptinessNotice(results)

\* C18: within one request the SQL-generation call, the execution of the
\* candidate and the synthesis call each happen at most once, and a failure of
\* either completion ends the request with status fail: nothing is generated
\* or executed again.
C18_EachStageAtMostOnce ==
    /\ genCalls <= 1
    /\ execCount <= 1
    /\ synthCalls <= 1
    /\ (genCalls = 1 /\ sql = NoSql /\ pc # "generate")
        => (pc = "done" /\ response.status = "fail"
              /\ execCount = 0 /\ synthCalls = 0)
    /\ (synthCalls = 1 /\ pc # "start")
        => /\ pc = "done"
           /\ response.response \notin Answers => response.status = "fail"

C18_Witness ==
    /\ pc = "done"
    /\ genCalls = 1
    /\ execCount = 1
    /\ synthCalls = 1
    /\ response.status = "fail"
    /\ response.response = MsgInternal(Timeout)

\* C19: when a candidate that passed both guards raises a store error at
\* execution, the response has status fail, contains the store's error text
\* verbatim and has sql_query equal to the candidate.
C19_StoreErrorVerbatim ==
    ExecutionFailed
    => /\ response.status = "fail"
       /\ \E i \in DOMAIN response.response :
            <<response.response[i]>> = Exec(cand).text
       /\ response.sql_query = sql

\* the schema description holds exactly the tables of the catalog whose name
\* is not in SENSITIVE_TABLES, each with its definition
DescribesVisible(info, tables) ==
    /\ \A i \in DOMAIN tables :
          (tables[i].name \notin SENSITIVE_TABLES)
            <=> \E j \in DOMAIN info :
                    info[j] = [Table |-> tables[i].name, Schema |-> tables[i].sql]
    /\ \A j \in DOMAIN info :
          /\ info[j].Table \notin SENSITIVE_TABLES
          /\ \E i \in DOMAIN tables : tables[i].name = info[j].Table

\* C20: for every content of the catalog, the schema description built for the
\* generation prompt holds the definition of every table whose name is not in
\* SENSITIVE_TABLES and of no table whose name is, and building it leaves the
\* store as it was.
C20_SchemaOmitsSensitiveTables ==
    [][(pc = "generate" /\ genCalls' = 1)
        => (DescribesVisible(schema_info', catalog) /\ catalog' = catalog)]_vars

C20_Witness ==
    /\ genCalls = 1
    /\ Len(catalog) = 4
    /\ Len(schema_info) = 3
    /\ \A j \in DOMAIN schema_info : schema_info[j].Table # "login_credentials"

-----------------------------------------------------------------------------
(* C21 - C30 *)

\* C21: the row filter is idempotent: for every role, username and list of
\* rows, filtering the filtered list again with the same role and username
\* gives the same list as filtering once.
C21_FilterIdempotent ==
    FilterCalled
    => post_filter_results_for_role(ret, arg_role, arg_username) = ret

C21_Witness ==
    /\ FilterCalled
    /\ arg_role = "student"
    /\ arg_username = S1
    /\ arg_results = <<[c \in {"ID"} |-> StrVal(S2)], [c \in {"ID"} |-> StrVal(S1)]>>
    /\ ret = <<[c \in {"ID"} |-> StrVal(S1)]>>
    /\ post_filter_results_for_role(ret, arg_role, arg_username) = ret

\* a is b with some of its elements left out: the elements of a occur in b,
\* in the same order
RECURSIVE IsSubSeq(_, _)
IsSubSeq(a, b) ==
    IF a = <<>> THEN TRUE
    ELSE IF b = <<>> THEN FALSE
    ELSE IF Head(a) = Head(b) THEN IsSubSeq(Tail(a), Tail(b))
    ELSE IsSubSeq(a, Tail(b))

\* C27: for every role, username and input list, what the row filter returns
\* is the input with some rows left out: no row is added, no row has a column
\* or a value changed, the rows keep their order, and the input list is the
\* same after the call as before it.
C27_OutputIsSubSequence ==
    [][(called = "none" /\ called' = "post_filter_results_for_role")
        => (IsSubSeq(ret', arg_results) /\ arg_results' = arg_results)]_vars

C27_Witness ==
    /\ FilterCalled
    /\ arg_role = "teacher"
    /\ arg_username = T1
    /\ arg_results = <<[c \in {"ID"} |-> StrVal(T2)], [c \in {"ID"} |-> StrVal(S1)]>>
    /\ ret = <<[c \in {"ID"} |-> StrVal(S1)]>>

\* the candidate of the request is one that both ai_sql_guard and
\* is_sql_safe_for_role reject
ViolatesBoth ==
    /\ sql # NoSql
    /\ ai_sql_guard(sql).blocked
    /\ is_sql_safe_for_role(sql, data.role, data.username) # None

\* C24: the Syntax Guard is evaluated before the Role Policy Filter: once a
\* candidate that violates both has been judged, the request has ended with
\* status fail and the Syntax Guard's message, and is_sql_safe_for_role has
\* not been evaluated; it is evaluated only on candidates the guard passed.
C24_GuardBeforePolicy ==
    /\ (ViolatesBoth /\ pc # "guard")
        => /\ pc = "done"
           /\ response.status = "fail"
           /\ response.response = ai_sql_guard(sql).message
           /\ response.response # is_sql_safe_for_role(sql, data.role, data.username)
           /\ policyVerdict = NotRun
    /\ policyVerdict # NotRun => guardVerdict = "passed"

C24_Witness ==
    /\ pc = "done"
    /\ data.role = "admin"
    /\ cand.kind = "query"
    /\ cand.lead = "select"
    /\ cand.tbl = "login_credentials"
    /\ cand.tail = <<";", " ", "DROP", " ", "table", " ", "student", ";">>
    /\ ViolatesBoth
    /\ guardVerdict = "blocked"
    /\ policyVerdict = NotRun
    /\ response.response = MsgCannotRun("drop")

\* the text trimmed of whitespace at both ends and lower-cased
Trimmed(s) == [i \in DOMAIN Strip(s) |-> Lower(Strip(s)[i])]

\* a ";" of t that is left once every leading and trailing ";" is taken off:
\* one with something other than ";" before it and after it
InnerSeparator(t) ==
    \E i \in DOMAIN t :
        /\ t[i] = ";"
        /\ \E j \in 1..(i - 1) : t[j] # ";"
        /\ \E j \in (i + 1)..Len(t) : t[j] # ";"

\* C25: ai_sql_guard accepts a candidate exactly when its trimmed, lower-cased
\* text starts with select, contains none of the seven forbidden keywords as
\* a substring, and contains no ";" once all leading and trailing ";" are
\* stripped; so a SELECT that only names an identifier with a keyword inside
\* it (created_at) is rejected.
C25_AcceptsExactly ==
    GuardCalled
    => /\ (~ret.blocked)
            <=> LET t == Trimmed(arg_sql)
                IN  /\ t # <<>>
                    /\ t[1] = "select"
                    /\ \A w \in ForbiddenWords : \A i \in DOMAIN t : t[i] # w
                    /\ ~InnerSeparator(t)
       /\ (BeginsWithSelect(arg_sql)
             /\ \E w \in ForbiddenWords :
                    HasSubstring(arg_sql, w) /\ ~HasWholeWord(arg_sql, w))
            => ret.blocked

C25_Witness ==
    /\ GuardCalled
    /\ arg_sql = <<"select", " ", "create", "d_at">>
    /\ ret.blocked
    /\ ret.message = MsgCannotRun("create")

\* the role of the request is none of admin, teacher, student
UnlistedRole == Lower(data.role) \notin {"admin", "teacher", "student"}

\* C26: for a request whose role is none of admin, teacher, student, the Role
\* Policy Filter applies the global table and column rules only, as it does
\* for admin, and the row filter returns every row of the executor, so the
\* caller gets the rows an admin gets.
C26_UnlistedRoleSeesAsAdmin ==
    /\ (UnlistedRole /\ policyVerdict # NotRun)
        => /\ policyVerdict = is_sql_safe_for_role(sql, "admin", data.username)
           /\ (~HasWholeWord(sql, "login_credentials") /\ ~HasWholeWord(sql, "password"))
                => policyVerdict = None
    /\ (UnlistedRole /\ RowsFiltered)
        => /\ results = raw_results
           /\ results = post_filter_results_for_role(raw_results, "admin", data.username)
           /\ raw_results = Exec(cand).rows

C26_Witness ==
    /\ data.role = "guest"
    /\ data.username = B2
    /\ cand.kind = "query"
    /\ cand.tbl = "instructor"
    /\ cand.cols = <<"ID", "name">>
    /\ cand.filt = <<>>
    /\ policyVerdict = None
    /\ pc = "synthesize"
    /\ results = <<[ID |-> StrVal(T1), name |-> StrVal(<<"C">>)],
                   [ID |-> StrVal(B2), name |-> StrVal(<<"D">>)]>>

\* nothing of a request served before is bound in the request that arrives
NothingCarriedOver ==
    /\ cand = NoCand
    /\ sql = NoSql
    /\ raw_results = <<>>
    /\ results = <<>>
    /\ result_str = <<>>
    /\ response = NoResponse
    /\ guardVerdict = "none"
    /\ policyVerdict = NotRun
    /\ schema_info = NoSchema

\* what the request holds is a function of its own payload, of the candidate
\* and answer its own completions gave, and of the store
OwnInputsOnly ==
    /\ sql # NoSql => sql = Strip(Text(cand))
    /\ (sql # NoSql /\ pc # "guard")
        => guardVerdict = IF ai_sql_guard(sql).blocked THEN "blocked" ELSE "passed"
    /\ policyVerdict # NotRun
        => policyVerdict = is_sql_safe_for_role(sql, data.role, data.username)
    /\ (pc = "filter" \/ RowsFiltered) => raw_results = Exec(cand).rows
    /\ RowsFiltered
        => /\ results = post_filter_results_for_role(Exec(cand).rows, data.role,
                                                     data.username)
           /\ result_str = ResultText(results)
    /\ pc = "done"
        => /\ response.sql_query \in {NA, sql}
           /\ guardVerdict = "blocked" => response.response = ai_sql_guard(sql).message
           /\ policyVerdict \notin {NotRun, None} => response.response = policyVerdict
           /\ response.status = "success"
                => (RowsFiltered /\ response.response \in Answers
                      /\ response.sql_query = sql)

-----------------------------------------------------------------------------
(* The endpoints that write the store, and login.  One call is one step: its *)
(* effect is what the handler has committed when it answers.                 *)

\* SQL NULL in a column, None in a payload
NULL == "<NULL>"

\* return {"status": "success", "message": ...}
Ok(message) == [code |-> 200, status |-> "success", message |-> message]

\* return {"status": "fail", "message": ...}
Fail(message) == [code |-> 200, status |-> "fail", message |-> message]

\* raise HTTPException(status_code, detail), as the client receives it
HTTPException(status_code, detail) ==
    [code |-> status_code, status |-> "error", message |-> detail]

\* the endpoint op is called with the payload and answers r
Answer(op, payload, r) ==
    /\ call' = [op |-> op, body |-> payload]
    /\ reply' = r

accountTables == <<login_credentials, users, student, instructor>>

enrollTables == <<section, teaches, takes>>

\* SELECT ... FROM login_credentials WHERE username=?
Credentials(username) == {r \in login_credentials : r.username = username}

\* SELECT ... FROM users WHERE username=?
Profile(username) == {r \in users : r.username = username}

\* UPDATE login_credentials SET approved=? WHERE username=?
SetApproved(username, approved) ==
    {IF r.username = username THEN [r EXCEPT !.approved = approved] ELSE r :
        r \in login_credentials}

\* login that lets every account with the right password in
login_ignoresApproval(credentials) ==
    /\ LET found == Credentials(credentials.username)
           user == CHOOSE r \in found : TRUE
       IN  Answer("login", credentials,
                  IF found = {} THEN Fail(<<"Invalid credentials">>)
                  ELSE IF credentials.password # user.password
                  THEN Fail(<<"Invalid credentials">>)
                  ELSE [code |-> 200, status |-> "success", message |-> <<user.role>>])
    /\ UNCHANGED accountTables
    /\ UNCHANGED enrollTables
    /\ UNCHANGED harnessVars
    /\ UNCHANGED queryVars

\* lines 399-419; the success answer carries the role in place of a message
login(credentials) ==
    /\ LET found == Credentials(credentials.username)
           user == CHOOSE r \in found : TRUE
       IN  Answer("login", credentials,
                  IF found = {} THEN Fail(<<"Invalid credentials">>)
                  ELSE IF credentials.password # user.password
                  THEN Fail(<<"Invalid credentials">>)
                  ELSE IF user.role = "admin" \/ user.approved = 1
                  THEN [code |-> 200, status |-> "success", message |-> <<user.role>>]
                  ELSE Fail(<<"User not approved yet">>))
    /\ UNCHANGED accountTables
    /\ UNCHANGED enrollTables
    /\ UNCHANGED harnessVars
    /\ UNCHANGED queryVars

\* lines 433-483; the users row of a deleted account is still there (no
\* foreign key is enforced), so its INSERT fails and the handler rolls back
register_user(body) ==
    /\ LET approved_status == IF body.role = "student" THEN 1 ELSE 0
       IN  IF Credentials(body.username) # {}
           THEN /\ Answer("register_user", body,
                          HTTPException(400, <<"Username already exists">>))
                /\ UNCHANGED accountTables
           ELSE IF Profile(body.username) # {}
           THEN /\ Answer("register_user", body,
                          HTTPException(500, <<"Registration failed due to server error">>))
                /\ UNCHANGED accountTables
           ELSE /\ login_credentials' = login_credentials \cup
                        {[username |-> body.username, password |-> body.password,
                          role |-> body.role, approved |-> approved_status]}
                /\ users' = users \cup {[username |-> body.username, role |-> body.role]}
                /\ student' = IF body.role = "student"
                              THEN student \cup {body.username} ELSE student
                /\ UNCHANGED instructor
                /\ Answer("register_user", body,
                          IF body.role = "student"
                          THEN Ok(<<"Student registered successfully. You can login now.">>)
                          ELSE Ok(<<"Instructor registration submitted. Waiting for admin approval.">>))
    /\ UNCHANGED enrollTables
    /\ UNCHANGED harnessVars
    /\ UNCHANGED queryVars

\* lines 495-535
approve_user(body) ==
    /\ LET found == Credentials(body.username)
           login_user == CHOOSE r \in found : TRUE
       IN  IF found = {}
           THEN /\ Answer("approve_user", body, HTTPException(404, <<"User not found">>))
                /\ UNCHANGED accountTables
           ELSE IF login_user.approved = 1
           THEN /\ Answer("approve_user", body, Fail(<<"User already approved">>))
                /\ UNCHANGED accountTables
           ELSE IF Profile(body.username) = {}
           THEN /\ Answer("approve_user", body,
                          HTTPException(404, <<"User registration record missing">>))
                /\ UNCHANGED accountTables
           ELSE /\ instructor' = IF login_user.role = "teacher"
                                 THEN instructor \cup {body.username} ELSE instructor
                /\ login_credentials' = SetApproved(body.username, 1)
                /\ UNCHANGED <<users, student>>
                /\ Answer("approve_user", body,
                          Ok(<<"User ", body.username, " approved successfully">>))
    /\ UNCHANGED enrollTables
    /\ UNCHANGED harnessVars
    /\ UNCHANGED queryVars

\* lines 547-573; the 404 is raised inside the try and `except Exception`
\* turns it into the 500
reject_user(body) ==
    /\ LET found == Credentials(body.username)
           user == CHOOSE r \in found : TRUE
       IN  IF found = {}
           THEN /\ Answer("reject_user", body, HTTPException(500, <<"Reject failed">>))
                /\ UNCHANGED accountTables
           ELSE IF user.approved = -1
           THEN /\ Answer("reject_user", body, Fail(<<"User already rejected">>))
                /\ UNCHANGED accountTables
           ELSE /\ login_credentials' = SetApproved(body.username, -1)
                /\ UNCHANGED <<users, student, instructor>>
                /\ Answer("reject_user", body, Ok(<<"User ", body.username, " rejected">>))
    /\ UNCHANGED enrollTables
    /\ UNCHANGED harnessVars
    /\ UNCHANGED queryVars

\* lines 582-605
update_password(body) ==
    /\ LET found == Credentials(body.username)
           user == CHOOSE r \in found : TRUE
       IN  IF found = {}
           THEN /\ Answer("update_password", body, HTTPException(404, <<"User not found">>))
                /\ UNCHANGED accountTables
           ELSE IF body.old_password # user.password
           THEN /\ Answer("update_password", body,
                          HTTPException(400, <<"Old password does not match">>))
                /\ UNCHANGED accountTables
           ELSE /\ login_credentials' =
                        {IF r.username = body.username
                         THEN [r EXCEPT !.password = body.new_password] ELSE r :
                            r \in login_credentials}
                /\ UNCHANGED <<users, student, instructor>>
                /\ Answer("update_password", body, Ok(<<"Password updated">>))
    /\ UNCHANGED enrollTables
    /\ UNCHANGED harnessVars
    /\ UNCHANGED queryVars

\* lines 610-659
remove_user_access(body) ==
    /\ LET found == Credentials(body.username)
           user == CHOOSE r \in found : TRUE
           table_name == CASE user.role = "student" -> "student"
                           [] user.role = "teacher" -> "instructor"
                           [] OTHER -> "admin (login credentials only)"
       IN  IF found = {}
           THEN /\ Answer("remove_user_access", body,
                          HTTPException(404, <<"User not found.">>))
                /\ UNCHANGED accountTables
           ELSE /\ login_credentials' = SetApproved(body.username, 0)
                /\ student' = IF user.role = "student"
                              THEN student \ {body.username} ELSE student
                /\ instructor' = IF user.role = "teacher"
                                 THEN instructor \ {body.username} ELSE instructor
                /\ UNCHANGED users
                /\ Answer("remove_user_access", body,
                          Ok(<<"Access for ", body.username, " (", user.role,
                               ") removed and data deleted from ", table_name, ".">>))
    /\ UNCHANGED enrollTables
    /\ UNCHANGED harnessVars
    /\ UNCHANGED queryVars

\* lines 882-912.  conn.commit() (line 894) comes before the rowcount test, so
\* both DELETEs stay; the 404 of line 896 is caught by `except Exception`,
\* whose ROLLBACK finds no transaction and raises sqlite3.OperationalError,
\* which get_db_connection (lines 124-126) answers with
delete_student(body) ==
    /\ LET rowcount == IF body.username \in student THEN 1 ELSE 0
       IN  /\ login_credentials' =
                {r \in login_credentials :
                    ~(r.username = body.username /\ r.role = "student")}
           /\ student' = student \ {body.username}
           /\ UNCHANGED <<users, instructor>>
           /\ Answer("delete_student", body,
                     IF rowcount = 0
                     THEN HTTPException(500, <<"Database connection failed">>)
                     ELSE Ok(<<"Student ", body.username,
                               " and all related data deleted successfully.">>))
    /\ UNCHANGED enrollTables
    /\ UNCHANGED harnessVars
    /\ UNCHANGED queryVars

\* lines 951-981, the same handler on the teacher's rows
delete_instructor(body) ==
    /\ LET rowcount == IF body.username \in instructor THEN 1 ELSE 0
       IN  /\ login_credentials' =
                {r \in login_credentials :
                    ~(r.username = body.username /\ r.role = "teacher")}
           /\ instructor' = instructor \ {body.username}
           /\ UNCHANGED <<users, student>>
           /\ Answer("delete_instructor", body,
                     IF rowcount = 0
                     THEN HTTPException(500, <<"Database connection failed">>)
                     ELSE Ok(<<"Instructor ", body.username,
                               " and all related data deleted successfully.">>))
    /\ UNCHANGED enrollTables
    /\ UNCHANGED harnessVars
    /\ UNCHANGED queryVars

-----------------------------------------------------------------------------
(* Sections and enrollment: add_new_section, enroll_student, drop_course *)

\* the table course, which none of these endpoints writes
course ==
    {[course_id |-> "C001", credits |-> 3], [course_id |-> "C002", credits |-> 3],
     [course_id |-> "C005", credits |-> 3], [course_id |-> "C009", credits |-> 3],
     [course_id |-> "C011", credits |-> 4]}

\* a and b name the same (course_id, sec_id, semester, year)
SameSection(a, b) ==
    /\ a.course_id = b.course_id
    /\ a.sec_id = b.sec_id
    /\ a.semester = b.semester
    /\ a.year = b.year

\* c.credits of the course
Credits(course_id) == (CHOOSE c \in course : c.course_id = course_id).credits

\* (SELECT COUNT(*) FROM takes WHERE ... ) AS enrollment_count
EnrollmentCount(s) == Cardinality({t \in takes : SameSection(t, s)})

RECURSIVE SumCredits(_)
SumCredits(rows) ==
    IF rows = {} THEN 0
    ELSE LET t == CHOOSE r \in rows : TRUE
         IN  Credits(t.course_id) + SumCredits(rows \ {t})

\* SELECT IFNULL(SUM(c.credits), 0) FROM takes t JOIN course c ... AND t.grade IS NULL
CurrentCredits(student_id, semester, year) ==
    SumCredits({t \in takes :
                    /\ t.ID = student_id
                    /\ t.semester = semester
                    /\ t.year = year
                    /\ t.grade = NULL
                    /\ \E c \in course : c.course_id = t.course_id})

\* the capacity test with > in place of >=
SectionFull_oneMore(enrollment_count, capacity) == enrollment_count > capacity

\* line 1272
SectionFull(enrollment_count, capacity) == enrollment_count >= capacity

\* the credit test on the credits held, the new course not counted
OverCreditLimit_heldOnly(current, course_cred) == current > 12

\* line 1290
OverCreditLimit(current, course_cred) == current + course_cred > 12

\* lines 1218-1349; every raise inside the try is followed by ROLLBACK
enroll_student(body) ==
    /\ LET sec_rows == {s \in section :
                            /\ SameSection(s, body)
                            /\ \E c \in course : c.course_id = s.course_id}
           sec == CHOOSE s \in sec_rows : TRUE
           enrollment_count == EnrollmentCount(sec)
           course_cred == Credits(sec.course_id)
           current == CurrentCredits(body.student_id, body.semester, body.year)
           existing == {s \in section :
                            /\ s.time_slot_id # NULL
                            /\ \E t \in takes :
                                    /\ t.ID = body.student_id
                                    /\ t.semester = body.semester
                                    /\ t.year = body.year
                                    /\ SameSection(t, s)}
           raised ==
               IF body.student_id \notin student
               THEN HTTPException(404, <<"Student not found or not registered/approved.">>)
               ELSE IF \E t \in takes : t.ID = body.student_id /\ SameSection(t, body)
               THEN HTTPException(400, <<"Already enrolled in this section">>)
               ELSE IF sec_rows = {}
               THEN HTTPException(404,
                        <<"Course or Section not found for the specified semester/year.">>)
               ELSE IF SectionFull(enrollment_count, sec.capacity)
               THEN HTTPException(400,
                        <<"Section is full. Current enrollment: ",
                          ToString(enrollment_count), "/", ToString(sec.capacity), ".">>)
               ELSE IF OverCreditLimit(current, course_cred)
               THEN HTTPException(400,
                        <<"Credit limit exceeded. Currently registered: ",
                          ToString(current), ", Max: 12.">>)
               ELSE IF /\ sec.time_slot_id # NULL
                       /\ \E es \in existing :
                            /\ es.time_slot_id = sec.time_slot_id
                            /\ es.building = sec.building
               THEN HTTPException(400, <<"Schedule conflict detected (Same time/location).">>)
               ELSE NoReply
       IN  IF raised # NoReply
           THEN /\ Answer("enroll_student", body, raised)
                /\ UNCHANGED enrollTables
           ELSE /\ takes' = takes \cup
                        {[ID |-> body.student_id, course_id |-> body.course_id,
                          sec_id |-> body.sec_id, semester |-> body.semester,
                          year |-> body.year, grade |-> NULL]}
                /\ UNCHANGED <<section, teaches>>
                /\ Answer("enroll_student", body, Ok(<<"Enrollment successful">>))
    /\ UNCHANGED accountTables
    /\ UNCHANGED harnessVars
    /\ UNCHANGED queryVars

\* lines 1353-1404
drop_course(body) ==
    /\ LET takes_record == {t \in takes :
                                /\ t.ID = body.student_id
                                /\ SameSection(t, body)
                                /\ t.grade = NULL}
       IN  IF takes_record = {}
           THEN /\ Answer("drop_course", body,
                          HTTPException(404, <<"Enrollment not found or course already graded.">>))
                /\ UNCHANGED enrollTables
           ELSE /\ takes' = {t \in takes : ~(t.ID = body.student_id /\ SameSection(t, body))}
                /\ UNCHANGED <<section, teaches>>
                /\ Answer("drop_course", body,
                          Ok(<<"Successfully dropped ", body.course_id, " section ",
                               body.sec_id, ". Your schedule is updated in real-time.">>))
    /\ UNCHANGED accountTables
    /\ UNCHANGED harnessVars
    /\ UNCHANGED queryVars

\* teacher_id is a text given by its parts, "-" being a part of its own;
\* this is the payload that leaves it out (None)
NoTeacher == <<NULL>>

\* teacher_id.split("-")[0]
FirstPart(teacher_id) ==
    IF teacher_id = <<>> \/ Head(teacher_id) = "-" THEN "" ELSE Head(teacher_id)

\* lines 238-263: what the function may return, fetchone() giving any one of
\* the rows that match; None when there is no conflict
check_section_conflicts(body) ==
    LET room_conflict ==
            {s \in section :
                /\ s.semester = body.semester
                /\ s.year = body.year
                /\ s.building = body.building
                /\ s.room_number = body.room_number
                /\ s.time_slot_id = body.time_slot_id
                /\ s.course_id # body.course_id
                /\ s.sec_id # body.sec_id}
        teacher_conflict ==
            {T \in teaches :
                /\ <<T.ID>> = body.teacher_id
                /\ T.course_id # body.course_id
                /\ T.sec_id # body.sec_id
                /\ \E S \in section :
                        /\ SameSection(T, S)
                        /\ S.semester = body.semester
                        /\ S.year = body.year
                        /\ S.time_slot_id = body.time_slot_id}
    IN  IF body.time_slot_id = NULL THEN {None}
        ELSE IF room_conflict # {}
        THEN {<<"Room Conflict: ", body.building, " ", body.room_number,
                " is already booked for ", s.course_id, "-", s.sec_id, ".">> :
                    s \in room_conflict}
        ELSE IF body.teacher_id \notin {<<>>, NoTeacher} /\ teacher_conflict # {}
        THEN {<<"Teacher Schedule Conflict: Teacher ", T.ID,
                " is already assigned to teach ", T.course_id, "-", T.sec_id,
                " at this time.">> : T \in teacher_conflict}
        ELSE {None}

\* lines 1018-1100
add_new_section(body) ==
    /\ IF body.semester # "Fall" \/ body.year # 2025
       THEN /\ Answer("add_new_section", body,
                      HTTPException(400,
                          <<"Only 'Fall 2025' scheduling is currently supported.">>))
            /\ UNCHANGED enrollTables
       ELSE \E conflict \in check_section_conflicts(body) :
            LET teacher_id == FirstPart(body.teacher_id)
            IN  IF conflict # None
                THEN /\ Answer("add_new_section", body, HTTPException(409, conflict))
                     /\ UNCHANGED enrollTables
                ELSE IF \E s \in section : SameSection(s, body)
                THEN /\ Answer("add_new_section", body,
                               HTTPException(400,
                                   <<"Section already exists for this semester/year.">>))
                     /\ UNCHANGED enrollTables
                ELSE IF body.teacher_id = NoTeacher
                THEN /\ Answer("add_new_section", body,
                               HTTPException(500,
                                   <<"Internal database error: ",
                                     "'NoneType' object has no attribute 'split'">>))
                     /\ UNCHANGED enrollTables
                ELSE IF teacher_id # "" /\ teacher_id \notin instructor
                THEN /\ Answer("add_new_section", body,
                               HTTPException(404,
                                   <<"Instructor ID ", teacher_id, " not found.">>))
                     /\ UNCHANGED enrollTables
                ELSE /\ section' = section \cup
                            {[course_id |-> body.course_id, sec_id |-> body.sec_id,
                              semester |-> body.semester, year |-> body.year,
                              building |-> body.building,
                              room_number |-> body.room_number,
                              capacity |-> body.capacity,
                              time_slot_id |-> body.time_slot_id]}
                     /\ teaches' = IF teacher_id # ""
                                   THEN teaches \cup
                                        {[ID |-> teacher_id, course_id |-> body.course_id,
                                          sec_id |-> body.sec_id,
                                          semester |-> body.semester,
                                          year |-> body.year]}
                                   ELSE teaches
                     /\ UNCHANGED takes
                     /\ Answer("add_new_section", body,
                               Ok(<<"Section ", body.course_id, "-", body.sec_id,
                                    " scheduled successfully.">>))
    /\ UNCHANGED accountTables
    /\ UNCHANGED harnessVars
    /\ UNCHANGED queryVars

-----------------------------------------------------------------------------
(* The store after setup.py, cut down to the rows the calls below touch *)

SectionRow(course_id, sec_id, semester, year, building, room_number, capacity, time_slot_id) ==
    [course_id |-> course_id, sec_id |-> sec_id, semester |-> semester,
     year |-> year, building |-> building, room_number |-> room_number,
     capacity |-> capacity, time_slot_id |-> time_slot_id]

TakesRow(ID, course_id, sec_id, semester, year, grade) ==
    [ID |-> ID, course_id |-> course_id, sec_id |-> sec_id,
     semester |-> semester, year |-> year, grade |-> grade]

SampleCredentials ==
    {[username |-> "admin", password |-> "admin123", role |-> "admin", approved |-> 1],
     [username |-> "S001", password |-> "pass1", role |-> "student", approved |-> 1],
     [username |-> "S016", password |-> "pass16", role |-> "student", approved |-> 1],
     [username |-> "T001", password |-> "tpass1", role |-> "teacher", approved |-> 1],
     [username |-> "T002", password |-> "tpass2", role |-> "teacher", approved |-> 1]}

SampleSections ==
    {SectionRow("C001", "01", "Fall", 2025, "BldgA", "101", 30, "TS01"),
     SectionRow("C001", "02", "Spring", 2026, "BldgA", "102", 30, "TS02"),
     SectionRow("C005", "01", "Fall", 2025, "BldgC", "301", 30, "TS06"),
     SectionRow("C007", "01", "Fall", 2025, "BldgD", "401", 30, "TS08"),
     SectionRow("C009", "01", "Fall", 2025, "BldgA", "104", 1, "TS10"),
     SectionRow("C011", "01", "Fall", 2025, "BldgA", "101", 30, "TS01"),
     SectionRow("C013", "01", "Fall", 2025, "BldgC", "302", 30, NULL)}

SampleTeaches ==
    {[ID |-> "T001", course_id |-> "C001", sec_id |-> "01",
      semester |-> "Fall", year |-> 2025]}

SampleTakes ==
    {TakesRow("S001", "C001", "01", "Fall", 2025, "A"),
     TakesRow("S001", "C009", "01", "Fall", 2025, NULL),
     TakesRow("S016", "C011", "01", "Fall", 2025, NULL),
     TakesRow("S016", "C005", "01", "Fall", 2025, NULL),
     TakesRow("S016", "C007", "01", "Fall", 2025, NULL)}

InitStore ==
    /\ HarnessIdle
    /\ QueryIdle
    /\ login_credentials = SampleCredentials
    /\ users = {}
    /\ student = {"S001", "S016"}
    /\ instructor = {"T001", "T002"}
    /\ section = SampleSections
    /\ teaches = SampleTeaches
    /\ takes = SampleTakes
    /\ call = NoCall
    /\ reply = NoReply

-----------------------------------------------------------------------------
(* Specification of the account endpoints and login *)

\* the administrator, a sample student, a newcomer, nobody
AccountNames == {"admin", "S001", "jdoe", "ghost"}

Passwords == {"admin123", "pass1", "secret1"}

LoginPayloads == [username : AccountNames, password : Passwords]

RegisterPayloads ==
    [username : {"S001", "jdoe"}, password : {"secret1"}, role : {"student", "teacher"}]

UsernamePayloads == [username : AccountNames]

PasswordPayloads ==
    [username : {"S001", "jdoe", "ghost"}, old_password : {"pass1", "secret1"},
     new_password : {"secret1"}]

InitAccounts == InitStore

NextAccounts ==
    \/ \E credentials \in LoginPayloads : login(credentials)
    \/ \E body \in RegisterPayloads : register_user(body)
    \/ \E body \in UsernamePayloads : approve_user(body)
    \/ \E body \in UsernamePayloads : reject_user(body)
    \/ \E body \in PasswordPayloads : update_password(body)
    \/ \E body \in UsernamePayloads : remove_user_access(body)
    \/ \E body \in UsernamePayloads : delete_student(body)
    \/ \E body \in UsernamePayloads : delete_instructor(body)

SpecAccounts == InitAccounts /\ [][NextAccounts]_vars

-----------------------------------------------------------------------------
(* Specification of sections and enrollment *)

SectionKeys ==
    {[course_id |-> "C001", sec_id |-> "01", semester |-> "Fall", year |-> 2025],
     [course_id |-> "C001", sec_id |-> "02", semester |-> "Spring", year |-> 2026],
     [course_id |-> "C002", sec_id |-> "09", semester |-> "Fall", year |-> 2025],
     [course_id |-> "C007", sec_id |-> "01", semester |-> "Fall", year |-> 2025],
     [course_id |-> "C009", sec_id |-> "01", semester |-> "Fall", year |-> 2025],
     [course_id |-> "C013", sec_id |-> "01", semester |-> "Fall", year |-> 2025]}

\* two sample students and a student nobody registered
EnrollPayloads ==
    {[student_id |-> s, course_id |-> k.course_id, sec_id |-> k.sec_id,
      semester |-> k.semester, year |-> k.year] :
        s \in {"S001", "S016", "S999"}, k \in SectionKeys}

NewSection ==
    [course_id |-> "C002", sec_id |-> "09", semester |-> "Fall", year |-> 2025,
     building |-> "BldgA", room_number |-> "103", capacity |-> 1,
     time_slot_id |-> NULL, teacher_id |-> <<"T002">>]

SectionPayloads ==
    {NewSection,
     [NewSection EXCEPT !.teacher_id = <<"T999">>],
     [NewSection EXCEPT !.room_number = "101", !.time_slot_id = "TS01"],
     [NewSection EXCEPT !.time_slot_id = "TS01", !.teacher_id = <<"T001">>],
     [NewSection EXCEPT !.time_slot_id = "TS01",
                        !.teacher_id = <<"T001", "-", "Alan Turing">>],
     [NewSection EXCEPT !.capacity = 2, !.teacher_id = <<>>],
     [NewSection EXCEPT !.semester = "Spring"],
     [NewSection EXCEPT !.teacher_id = NoTeacher]}

InitEnroll == InitStore

NextEnroll ==
    \/ \E body \in SectionPayloads : add_new_section(body)
    \/ \E body \in EnrollPayloads : enroll_student(body)
    \/ \E body \in EnrollPayloads : drop_course(body)

SpecEnroll == InitEnroll /\ [][NextEnroll]_vars

-----------------------------------------------------------------------------
(* C23, C28, C29, C30: the endpoints that write the store, and login *)

\* the answer is a failure: an HTTP error or status "fail"
Failure(r) == r.status \in {"error", "fail"}

\* C23: a write-path operation that ends in a failure response leaves the
\* store exactly as it was before the operation started.
C23_FailureLeavesStoreUnchanged ==
    [][Failure(reply') => UNCHANGED <<accountTables, enrollTables>>]_vars

\* the failure answer of enroll_student that begins with the text
FailsWith(r, text) ==
    /\ r.status = "error"
    /\ r.message # <<>>
    /\ Head(r.message) = text

\* no section holds more takes rows than its capacity
NoSectionOverCapacity == \A s \in section : EnrollmentCount(s) <= s.capacity

\* the step is a call of enroll_student on a section that is full
EnrollOnFullSection ==
    /\ call'.op = "enroll_student"
    /\ \E s \in section : SameSection(s, call'.body) /\ EnrollmentCount(s) >= s.capacity

\* the student of the call already has a takes row of the section
AlreadyEnrolled == \E t \in takes : t.ID = call'.body.student_id /\ SameSection(t, call'.body)

NoStudentOverLimit ==
    \A t \in takes : CurrentCredits(t.ID, t.semester, t.year) <= 12

\* the step is a call of enroll_student whose course would take the student's
\* ungraded credits of the semester and year past 12
EnrollPastLimit ==
    /\ call'.op = "enroll_student"
    /\ \E s \in section :
            /\ SameSection(s, call'.body)
            /\ \E c \in course : c.course_id = s.course_id
            /\ CurrentCredits(call'.body.student_id, s.semester, s.year)
                    + Credits(s.course_id) > 12

\* the section of the call is full
SectionOfCallFull ==
    \E s \in section : SameSection(s, call'.body) /\ EnrollmentCount(s) >= s.capacity

LoginSucceeded == call.op = "login" /\ reply.status = "success"

\* login answers success only for the stored password of an account that is
\* an admin's or is approved
SuccessOnlyIfEntitled ==
    LoginSucceeded =>
        \E r \in Credentials(call.body.username) :
            /\ r.password = call.body.password
            /\ (r.role = "admin" \/ r.approved = 1)

====
